---- MODULE Spec2Model ----
(***************************************************************************)
(* The two CRUD adapters of fastapi_crudrouter/core:                       *)
(*   DatabasesCRUDRouter (databases.py, query-builder style) and           *)
(*   TortoiseCRUDRouter  (tortoise.py, active-record style).               *)
(*                                                                         *)
(* A behaviour is one adapter instance serving up to MaxReq requests at a  *)
(* time against one table.  Every `await` of a route is one atomic step of *)
(* the backend; the code between two awaits runs without suspension, so a  *)
(* route's return or raise belongs to the step of its last await.  Other   *)
(* requests may take steps between two awaits of the same route.           *)
(*                                                                         *)
(* The backend is outside the repository.  What the code relies on:        *)
(*   - an insert assigns a primary key no stored row has and reports it;   *)
(*   - `execute` of an update/delete reports the number of affected rows   *)
(*     (the code tests it with `if rid:`);                                 *)
(*   - rows are listed in ascending primary-key order;                     *)
(*   - any backend call may raise (parameter ok = FALSE of each step).     *)
(***************************************************************************)
EXTENDS Integers, Sequences, FiniteSets, TLC

\* Bounds of the model.
MaxId == 2
MaxReq == 2

Ids == 1..MaxId
Req == 1..MaxReq
Names == {"a", "b"}

\* Python's None as stored default of a field the payload leaves unset.
None == "None"
\* A payload field that was not set by the caller.
Unset == "Unset"
\* No row under this key.
Absent == "Absent"
\* The payload (its schema) carries no primary-key field.
NoPk == 0
\* pagination limit None.
NoLimit == -1

Adapters == {"databases", "tortoise"}
\* Name of the primary-key column of the table / db_model.
PkNames == {"id", "key"}

\* Field names a schema may have.
FieldNames == {"id", "key", "name"}

VARIABLES
    ctor,      \* what __init__ has set up: the schema, the keyword arguments
               \* the caller passed, and the create schema and prefix in use
    adapter,   \* which router class this instance is
    pkName,    \* self._pk
    store,     \* the table: key -> value of the non-key field, or Absent
    req,       \* the requests in flight
    cleared,   \* history: a delete-all took effect and no insert since
    seen       \* history: the last answer of get_one that a caller took,
               \* with no mutating backend call made since

vars == <<ctor, adapter, pkName, store, req, cleared, seen>>

----------------------------------------------------------------------------
\* Construction.  A schema is the set of its field names; the keyword
\* arguments are a function from the names the caller passed.

Schemas == SUBSET FieldNames

Kwargs ==
    {[k \in D |-> IF k = "prefix" THEN "custom" ELSE cs] :
        D \in SUBSET {"prefix", "create_schema"}, cs \in Schemas}

NoKwargs == [k \in {} |-> ""]

\* The schema of the rows of the table: the primary key and one other field.
RowSchema == {pkName, "name"}

\* _utils.schema_factory(schema, pk): every field of schema but pk.
SchemaFactory(schema, pk) == schema \ {pk}

\* Mutant of Databases_kwargs: the create schema defaults to the schema.
Databases_kwargs_whole(schema, kw) ==
    [k \in DOMAIN kw \cup {"prefix", "create_schema"} |->
        IF k \in DOMAIN kw THEN kw[k]
        ELSE IF k = "prefix" THEN "table"
        ELSE schema]

\* if "prefix" not in kwargs: kwargs["prefix"] = table.name
\* if "create_schema" not in kwargs:
\*     kwargs["create_schema"] = _utils.schema_factory(schema, self._pk)
Databases_kwargs(schema, kw) ==
    [k \in DOMAIN kw \cup {"prefix", "create_schema"} |->
        IF k \in DOMAIN kw THEN kw[k]
        ELSE IF k = "prefix" THEN "table"
        ELSE SchemaFactory(schema, pkName)]

\* The same two defaults, the prefix from db_model.describe()["name"].
Tortoise_kwargs(schema, kw) ==
    [k \in DOMAIN kw \cup {"prefix", "create_schema"} |->
        IF k \in DOMAIN kw THEN kw[k]
        ELSE IF k = "prefix" THEN "model"
        ELSE SchemaFactory(schema, pkName)]

\* CRUDGenerator.__init__(schema, **kwargs): the generator keeps the schema,
\* the create schema and the prefix it is given.  passed: the keyword
\* arguments as the caller wrote them (history).
Generator_init(schema, kw, passed) ==
    [built |-> TRUE, schema |-> schema, passed |-> passed,
     create_schema |-> kw["create_schema"], prefix |-> kw["prefix"]]

Unbuilt ==
    [built |-> FALSE, schema |-> {}, passed |-> NoKwargs,
     create_schema |-> {}, prefix |-> ""]

----------------------------------------------------------------------------
\* Records, payloads and the table.

Row(k, v) == [pk |-> k, name |-> v]

\* A payload: the value it gives the non-key field (or Unset) and the value
\* it carries for the primary-key field (NoPk when it carries none).  The
\* create schema has no primary-key field and requires the other field; an
\* update schema is supplied by the caller and may carry both.
CreatePayloads == [pk : {NoPk}, name : Names]
UpdatePayloads == [pk : {NoPk} \cup Ids, name : {Unset} \cup Names]
NoPayload == [pk |-> NoPk, name |-> Unset]

\* schema.dict(): every field of the schema, unset ones with their default.
DictName(p) == IF p.name = Unset THEN None ELSE p.name

Keys(s) == {k \in Ids : s[k] # Absent}

EmptyTable == [k \in Ids |-> Absent]

RECURSIVE RowsFrom(_, _)
RowsFrom(s, k) ==
    IF k > MaxId THEN <<>>
    ELSE (IF s[k] # Absent THEN <<Row(k, s[k])>> ELSE <<>>) \o RowsFrom(s, k + 1)

\* table.select() / db_model.all(): all rows in the backend's order.
SelectAll(s) == RowsFrom(s, 1)

\* Mutant of Offset: the offset is not applied.
Offset_ignored(rows, skip) == rows

Offset(rows, skip) == SubSeq(rows, skip + 1, Len(rows))
Limit(rows, limit) == SubSeq(rows, 1, IF limit < Len(rows) THEN limit ELSE Len(rows))

----------------------------------------------------------------------------
\* Requests.  pc: "idle" (no request in this slot), "relist" (delete_all
\* after its delete), "delete" (delete_one after its fetch), "refetch"
\* (tortoise update after its update), "done" (the route has just returned
\* or raised; out/val are what the caller receives).

Idle ==
    [pc |-> "idle", op |-> "", id |-> 0, payload |-> NoPayload, skip |-> 0,
     limit |-> NoLimit, row |-> <<>>, out |-> "", val |-> <<>>,
     fault |-> FALSE, missing |-> FALSE, affected |-> 0]

\* No answer of get_one is remembered.
NoSeen == [id |-> 0, out |-> "", val |-> <<>>]

\* No route is at its return: a return completes within the step that
\* produced it, before any other coroutine runs.
Quiet == \A q \in Req : req[q].pc # "done"

Start(r) == Quiet /\ req[r].pc = "idle"
At(r, pc) == Quiet /\ req[r].pc = pc

\* The step that makes request r return or raise has made a mutating
\* backend call that the backend carried out: the insert of create, the
\* update of the databases _update, the delete of delete_one.
Mutated(op, out, fault) ==
    /\ ~fault
    /\ out = "ok"
    /\ \/ op \in {"create", "delete_one"}
       \/ op = "update" /\ adapter = "databases"

\* The route of request r returns val (out = "ok") or raises out; its last
\* backend call reported n affected rows.
\* fault: the backend call of this step raised on its own account.
\* missing: no row had key id at any backend call of the request.
ReturnAffected(r, op, id, p, skip, limit, out, val, fault, missing, n) ==
    /\ req' = [req EXCEPT ![r] =
          [pc |-> "done", op |-> op, id |-> id, payload |-> p, skip |-> skip,
           limit |-> limit, row |-> <<>>, out |-> out, val |-> val,
           fault |-> fault, missing |-> missing, affected |-> n]]
    /\ seen' = IF Mutated(op, out, fault) THEN NoSeen ELSE seen

Return(r, op, id, p, skip, limit, out, val, fault, missing) ==
    ReturnAffected(r, op, id, p, skip, limit, out, val, fault, missing, 0)

\* The route of request r suspends at its next await: after the delete of
\* delete_all ("relist"), after the update of the tortoise _update
\* ("refetch"), or after the fetch of delete_one ("delete").
Await(r, pc, op, id, p, row, missing) ==
    /\ req' = [req EXCEPT ![r] =
          [pc |-> pc, op |-> op, id |-> id, payload |-> p, skip |-> 0,
           limit |-> NoLimit, row |-> row, out |-> "", val |-> <<>>,
           fault |-> FALSE, missing |-> missing, affected |-> 0]]
    /\ seen' = IF pc \in {"relist", "refetch"} THEN NoSeen ELSE seen

\* The caller has taken the response; the slot is free again.
Respond(r) ==
    /\ req[r].pc = "done"
    /\ req' = [req EXCEPT ![r] = Idle]
    /\ seen' = IF req[r].op = "get_one" /\ ~req[r].fault
               THEN [id |-> req[r].id, out |-> req[r].out, val |-> req[r].val]
               ELSE seen
    /\ UNCHANGED <<ctor, adapter, pkName, store, cleared>>

----------------------------------------------------------------------------
\* The backend.

\* Keys an insert may assign: any key no stored row has.
FreshKeys(s) == Ids \ Keys(s)

InsertRow(s, k, v) == [s EXCEPT ![k] = v]

\* UPDATE ... WHERE pk = id with the given value for the non-key field.
UpdateRow(s, id, v) == IF id \in Keys(s) THEN [s EXCEPT ![id] = v] ELSE s

\* DELETE ... WHERE pk = id.
DeleteRow(s, id) == [s EXCEPT ![id] = Absent]

\* Mutant of DeleteRows: the delete carries a WHERE clause on the first key.
DeleteRows_first(s) == DeleteRow(s, 1)

\* DELETE without a WHERE clause.
DeleteRows(s) == EmptyTable

\* Mutant of RowCount: execute reports a truthy value whatever it affected.
RowCount_truthy(s, id) == 1

\* Rows affected by an update or delete filtered by primary key.
RowCount(s, id) == IF id \in Keys(s) THEN 1 ELSE 0

----------------------------------------------------------------------------
\* DatabasesCRUDRouter.

\* table.select().limit(limit).offset(skip): limit(None) is no limit.
Databases_select(s, skip, limit) ==
    LET rows == Offset(SelectAll(s), skip)
    IN  IF limit = NoLimit THEN rows ELSE Limit(rows, limit)

\* Mutant of Databases_create_return: the result of execute is read as the
\* number of inserted rows, not as the key of the inserted row.
Databases_create_return_rowcount(rid, p) == Row(1, DictName(p))

\* {self._pk: rid, **schema.dict()} of _create.
Databases_create_return(rid, p) ==
    Row(IF p.pk # NoPk THEN p.pk ELSE rid, DictName(p))

\* {self._pk: rid, **schema.dict()} of _update.
Databases_update_return(rid, p) ==
    Row(IF p.pk # NoPk THEN p.pk ELSE rid, DictName(p))

\* model = await self.db.fetch_one(query); return it `if model`, else NOT_FOUND.
Databases_get_one_result(s, id) ==
    IF id \in Keys(s)
    THEN [out |-> "ok", val |-> <<Row(id, s[id])>>]
    ELSE [out |-> "NotFound", val |-> <<>>]

Databases_get_all(r, skip, limit, ok) ==
    /\ adapter = "databases"
    /\ Start(r)
    /\ IF ok
       THEN Return(r, "get_all", 0, NoPayload, skip, limit, "ok",
                   Databases_select(store, skip, limit), FALSE, FALSE)
       ELSE Return(r, "get_all", 0, NoPayload, skip, limit, "BackendError",
                   <<>>, TRUE, FALSE)
    /\ UNCHANGED <<ctor, adapter, pkName, store, cleared>>

\* Mutant of Databases_get_one: the row is taken out of the table as it is
\* fetched.
Databases_get_one_consuming(r, id, ok) ==
    /\ adapter = "databases"
    /\ Start(r)
    /\ IF ~ok
       THEN /\ Return(r, "get_one", id, NoPayload, 0, NoLimit, "BackendError",
                      <<>>, TRUE, id \notin Keys(store))
            /\ UNCHANGED store
       ELSE LET res == Databases_get_one_result(store, id)
            IN  /\ Return(r, "get_one", id, NoPayload, 0, NoLimit, res.out,
                          res.val, FALSE, id \notin Keys(store))
                /\ store' = DeleteRow(store, id)
    /\ UNCHANGED <<ctor, adapter, pkName, cleared>>

Databases_get_one(r, id, ok) ==
    /\ adapter = "databases"
    /\ Start(r)
    /\ IF ~ok
       THEN Return(r, "get_one", id, NoPayload, 0, NoLimit, "BackendError",
                   <<>>, TRUE, id \notin Keys(store))
       ELSE LET res == Databases_get_one_result(store, id)
            IN  Return(r, "get_one", id, NoPayload, 0, NoLimit, res.out,
                       res.val, FALSE, id \notin Keys(store))
    /\ UNCHANGED <<ctor, adapter, pkName, store, cleared>>

\* k: the key the backend assigns to the inserted row.
Databases_create(r, p, k, ok) ==
    /\ adapter = "databases"
    /\ Start(r)
    /\ IF ok
       THEN /\ k \in FreshKeys(store)
            /\ store' = InsertRow(store, k, DictName(p))
            /\ cleared' = FALSE
            /\ Return(r, "create", 0, p, 0, NoLimit, "ok",
                      <<Databases_create_return(k, p)>>, FALSE, FALSE)
       ELSE /\ Return(r, "create", 0, p, 0, NoLimit, "Conflict",
                      <<>>, TRUE, FALSE)
            /\ UNCHANGED <<store, cleared>>
    /\ UNCHANGED <<ctor, adapter, pkName>>

\* Mutant of Databases_update: a failure of execute is caught and raised as
\* NOT_FOUND.
Databases_update_caught(r, id, p, ok) ==
    /\ adapter = "databases"
    /\ Start(r)
    /\ IF ok
       THEN /\ store' = UpdateRow(store, id, DictName(p))
            /\ LET rid == RowCount(store, id)
               IN  IF rid # 0
                   THEN Return(r, "update", id, p, 0, NoLimit, "ok",
                               <<Databases_update_return(rid, p)>>, FALSE, FALSE)
                   ELSE Return(r, "update", id, p, 0, NoLimit, "NotFound",
                               <<>>, FALSE, TRUE)
       ELSE /\ Return(r, "update", id, p, 0, NoLimit, "NotFound",
                      <<>>, TRUE, id \notin Keys(store))
            /\ UNCHANGED store
    /\ UNCHANGED <<ctor, adapter, pkName, cleared>>

Databases_update(r, id, p, ok) ==
    /\ adapter = "databases"
    /\ Start(r)
    /\ IF ok
       THEN /\ store' = UpdateRow(store, id, DictName(p))
            /\ LET rid == RowCount(store, id)
               IN  IF rid # 0
                   THEN Return(r, "update", id, p, 0, NoLimit, "ok",
                               <<Databases_update_return(rid, p)>>, FALSE, FALSE)
                   ELSE Return(r, "update", id, p, 0, NoLimit, "NotFound",
                               <<>>, FALSE, TRUE)
       ELSE /\ Return(r, "update", id, p, 0, NoLimit, "BackendError",
                      <<>>, TRUE, id \notin Keys(store))
            /\ UNCHANGED store
    /\ UNCHANGED <<ctor, adapter, pkName, cleared>>

Databases_delete_all(r, ok) ==
    /\ adapter = "databases"
    /\ Start(r)
    /\ IF ok
       THEN /\ store' = DeleteRows(store)
            /\ cleared' = TRUE
            /\ Await(r, "relist", "delete_all", 0, NoPayload, <<>>, FALSE)
       ELSE /\ Return(r, "delete_all", 0, NoPayload, 0, NoLimit, "BackendError",
                      <<>>, TRUE, FALSE)
            /\ UNCHANGED <<store, cleared>>
    /\ UNCHANGED <<ctor, adapter, pkName>>

\* Mutant of Databases_relist_pagination: one row at most is listed.
Databases_relist_pagination_one == [skip |-> 0, limit |-> 1]

\* pagination={"skip": 0, "limit": None}
Databases_relist_pagination == [skip |-> 0, limit |-> NoLimit]

\* return await self._get_all()(pagination={"skip": 0, "limit": None})
Databases_delete_all_relist(r, ok) ==
    /\ adapter = "databases"
    /\ At(r, "relist")
    /\ IF ok
       THEN Return(r, "delete_all", 0, NoPayload, 0, NoLimit, "ok",
                   Databases_select(store, Databases_relist_pagination.skip,
                                    Databases_relist_pagination.limit),
                   FALSE, FALSE)
       ELSE Return(r, "delete_all", 0, NoPayload, 0, NoLimit, "BackendError",
                   <<>>, TRUE, FALSE)
    /\ UNCHANGED <<ctor, adapter, pkName, store, cleared>>

\* row = await self._get_one()(item_id)
Databases_delete_one(r, id, ok) ==
    /\ adapter = "databases"
    /\ Start(r)
    /\ IF ~ok
       THEN Return(r, "delete_one", id, NoPayload, 0, NoLimit, "BackendError",
                   <<>>, TRUE, id \notin Keys(store))
       ELSE LET res == Databases_get_one_result(store, id)
            IN  IF res.out = "ok"
                THEN Await(r, "delete", "delete_one", id, NoPayload, res.val, FALSE)
                ELSE Return(r, "delete_one", id, NoPayload, 0, NoLimit, res.out,
                            <<>>, FALSE, id \notin Keys(store))
    /\ UNCHANGED <<ctor, adapter, pkName, store, cleared>>

\* Mutant of Databases_delete_one_return: the row is rebuilt around rid, as
\* _update does.
Databases_delete_one_return_rid(row, rid, s, id) == <<Row(rid, row[1].name)>>

\* What _delete_one returns once its delete reported rid affected rows.
Databases_delete_one_return(row, rid, s, id) == row

\* rid = await self.db.execute(query=query); return row or raise NOT_FOUND
Databases_delete_one_execute(r, ok) ==
    /\ adapter = "databases"
    /\ At(r, "delete")
    /\ LET id == req[r].id
       IN  IF ok
           THEN /\ store' = DeleteRow(store, id)
                /\ LET rid == RowCount(store, id)
                   IN  IF rid # 0
                       THEN ReturnAffected(r, "delete_one", id, NoPayload, 0,
                                NoLimit, "ok",
                                Databases_delete_one_return(req[r].row, rid, store, id),
                                FALSE, FALSE, rid)
                       ELSE ReturnAffected(r, "delete_one", id, NoPayload, 0,
                                NoLimit, "NotFound", <<>>, FALSE, FALSE, rid)
           ELSE /\ Return(r, "delete_one", id, NoPayload, 0, NoLimit, "BackendError",
                          <<>>, TRUE, FALSE)
                /\ UNCHANGED store
    /\ UNCHANGED <<ctor, adapter, pkName, cleared>>

----------------------------------------------------------------------------
\* TortoiseCRUDRouter.

\* Mutant of Tortoise_select: the limit is applied whenever it is not None.
Tortoise_select_limit_zero(s, skip, limit) ==
    LET rows == Offset(SelectAll(s), skip)
    IN  IF limit # NoLimit THEN Limit(rows, limit) ELSE rows

\* db_model.all().offset(skip), and .limit(limit) only `if limit:`.
Tortoise_select(s, skip, limit) ==
    LET rows == Offset(SelectAll(s), skip)
    IN  IF limit # NoLimit /\ limit # 0 THEN Limit(rows, limit) ELSE rows

\* db_model.filter(id=item_id): the routes filter on the field named "id",
\* whatever self._pk is.  A db_model whose primary key has another name has
\* no such primary-key filter, and the backend rejects the query.
Tortoise_filter_rejected == pkName # "id"

\* The instance db_model.save() leaves: the payload's fields and the key.
Tortoise_create_return(k, p) == Row(k, DictName(p))

\* filter(id=item_id).update(**model.dict(exclude_unset=True)) applied by the
\* backend: only the fields the payload sets are written (none when it sets
\* none), the primary key among them when the payload sets it.
Tortoise_update_rows(s, id, p) ==
    IF id \notin Keys(s) THEN s
    ELSE LET v == IF p.name = Unset THEN s[id] ELSE p.name
             k == IF p.pk = NoPk THEN id ELSE p.pk
         IN  [[s EXCEPT ![id] = Absent] EXCEPT ![k] = v]

\* The update would give the row the key of another stored row.
Tortoise_update_clash(s, id, p) ==
    /\ id \in Keys(s)
    /\ p.pk \notin {NoPk, id}
    /\ p.pk \in Keys(s)

\* model = await self.db_model.filter(id=item_id).first(); return it
\* `if model`, else NOT_FOUND.
Tortoise_get_one_result(s, id) ==
    IF Tortoise_filter_rejected
    THEN [out |-> "BackendError", val |-> <<>>]
    ELSE IF id \in Keys(s)
    THEN [out |-> "ok", val |-> <<Row(id, s[id])>>]
    ELSE [out |-> "NotFound", val |-> <<>>]

Tortoise_get_all(r, skip, limit, ok) ==
    /\ adapter = "tortoise"
    /\ Start(r)
    /\ IF ok
       THEN Return(r, "get_all", 0, NoPayload, skip, limit, "ok",
                   Tortoise_select(store, skip, limit), FALSE, FALSE)
       ELSE Return(r, "get_all", 0, NoPayload, skip, limit, "BackendError",
                   <<>>, TRUE, FALSE)
    /\ UNCHANGED <<ctor, adapter, pkName, store, cleared>>

Tortoise_get_one(r, id, ok) ==
    /\ adapter = "tortoise"
    /\ Start(r)
    /\ IF ~ok
       THEN Return(r, "get_one", id, NoPayload, 0, NoLimit, "BackendError",
                   <<>>, TRUE, id \notin Keys(store))
       ELSE LET res == Tortoise_get_one_result(store, id)
            IN  Return(r, "get_one", id, NoPayload, 0, NoLimit, res.out,
                       res.val, FALSE, id \notin Keys(store))
    /\ UNCHANGED <<ctor, adapter, pkName, store, cleared>>

\* No try/except around save(): a backend error leaves the route as it is.
Tortoise_create(r, p, k, ok) ==
    /\ adapter = "tortoise"
    /\ Start(r)
    /\ IF ok
       THEN /\ k \in FreshKeys(store)
            /\ store' = InsertRow(store, k, DictName(p))
            /\ cleared' = FALSE
            /\ Return(r, "create", 0, p, 0, NoLimit, "ok",
                      <<Tortoise_create_return(k, p)>>, FALSE, FALSE)
       ELSE /\ Return(r, "create", 0, p, 0, NoLimit, "BackendError",
                      <<>>, TRUE, FALSE)
            /\ UNCHANGED <<store, cleared>>
    /\ UNCHANGED <<ctor, adapter, pkName>>

\* await self.db_model.filter(id=item_id).update(...).  applies: whether the
\* backend accepts a primary key among the updated fields or rejects it.
Tortoise_update(r, id, p, ok, applies) ==
    /\ adapter = "tortoise"
    /\ Start(r)
    /\ IF ~ok
       THEN /\ Return(r, "update", id, p, 0, NoLimit, "BackendError",
                      <<>>, TRUE, id \notin Keys(store))
            /\ UNCHANGED store
       ELSE IF \/ Tortoise_filter_rejected
               \/ p.pk # NoPk /\ ~applies
               \/ Tortoise_update_clash(store, id, p)
       THEN /\ Return(r, "update", id, p, 0, NoLimit, "BackendError",
                      <<>>, FALSE, id \notin Keys(store))
            /\ UNCHANGED store
       ELSE /\ store' = Tortoise_update_rows(store, id, p)
            /\ Await(r, "refetch", "update", id, p, <<>>, id \notin Keys(store))
    /\ UNCHANGED <<ctor, adapter, pkName, cleared>>

\* return await self._get_one()(item_id)
Tortoise_update_refetch(r, ok) ==
    /\ adapter = "tortoise"
    /\ At(r, "refetch")
    /\ LET id == req[r].id
           p == req[r].payload
           missing == req[r].missing /\ id \notin Keys(store)
       IN  IF ~ok
           THEN Return(r, "update", id, p, 0, NoLimit, "BackendError",
                       <<>>, TRUE, missing)
           ELSE LET res == Tortoise_get_one_result(store, id)
                IN  Return(r, "update", id, p, 0, NoLimit, res.out,
                           res.val, FALSE, missing)
    /\ UNCHANGED <<ctor, adapter, pkName, store, cleared>>

Tortoise_delete_all(r, ok) ==
    /\ adapter = "tortoise"
    /\ Start(r)
    /\ IF ok
       THEN /\ store' = DeleteRows(store)
            /\ cleared' = TRUE
            /\ Await(r, "relist", "delete_all", 0, NoPayload, <<>>, FALSE)
       ELSE /\ Return(r, "delete_all", 0, NoPayload, 0, NoLimit, "BackendError",
                      <<>>, TRUE, FALSE)
            /\ UNCHANGED <<store, cleared>>
    /\ UNCHANGED <<ctor, adapter, pkName>>

Tortoise_delete_all_relist(r, ok) ==
    /\ adapter = "tortoise"
    /\ At(r, "relist")
    /\ IF ok
       THEN Return(r, "delete_all", 0, NoPayload, 0, NoLimit, "ok",
                   Tortoise_select(store, 0, NoLimit), FALSE, FALSE)
       ELSE Return(r, "delete_all", 0, NoPayload, 0, NoLimit, "BackendError",
                   <<>>, TRUE, FALSE)
    /\ UNCHANGED <<ctor, adapter, pkName, store, cleared>>

\* model = await self._get_one()(item_id)
Tortoise_delete_one(r, id, ok) ==
    /\ adapter = "tortoise"
    /\ Start(r)
    /\ IF ~ok
       THEN Return(r, "delete_one", id, NoPayload, 0, NoLimit, "BackendError",
                   <<>>, TRUE, id \notin Keys(store))
       ELSE LET res == Tortoise_get_one_result(store, id)
            IN  IF res.out = "ok"
                THEN Await(r, "delete", "delete_one", id, NoPayload, res.val, FALSE)
                ELSE Return(r, "delete_one", id, NoPayload, 0, NoLimit, res.out,
                            <<>>, FALSE, id \notin Keys(store))
    /\ UNCHANGED <<ctor, adapter, pkName, store, cleared>>

\* What _delete_one returns after its delete.
Tortoise_delete_one_return(model, s, id) == model

\* Mutant of Tortoise_delete_one_delete: the number of deleted rows is
\* tested, as the databases route does.
Tortoise_delete_one_delete_checked(r, ok) ==
    /\ adapter = "tortoise"
    /\ At(r, "delete")
    /\ LET id == req[r].id
           n == RowCount(store, id)
       IN  IF ok
           THEN /\ store' = DeleteRow(store, id)
                /\ IF n # 0
                   THEN ReturnAffected(r, "delete_one", id, NoPayload, 0, NoLimit,
                            "ok", req[r].row, FALSE, FALSE, n)
                   ELSE ReturnAffected(r, "delete_one", id, NoPayload, 0, NoLimit,
                            "NotFound", <<>>, FALSE, FALSE, n)
           ELSE /\ Return(r, "delete_one", id, NoPayload, 0, NoLimit, "BackendError",
                          <<>>, TRUE, FALSE)
                /\ UNCHANGED store
    /\ UNCHANGED <<ctor, adapter, pkName, cleared>>

\* await self.db_model.filter(id=item_id).delete(); return model
Tortoise_delete_one_delete(r, ok) ==
    /\ adapter = "tortoise"
    /\ At(r, "delete")
    /\ LET id == req[r].id
       IN  IF ok
           THEN /\ store' = DeleteRow(store, id)
                /\ ReturnAffected(r, "delete_one", id, NoPayload, 0, NoLimit,
                          "ok", Tortoise_delete_one_return(req[r].row, store, id),
                          FALSE, FALSE, RowCount(store, id))
           ELSE /\ Return(r, "delete_one", id, NoPayload, 0, NoLimit, "BackendError",
                          <<>>, TRUE, FALSE)
                /\ UNCHANGED store
    /\ UNCHANGED <<ctor, adapter, pkName, cleared>>

----------------------------------------------------------------------------
\* The constructors.

\* DatabasesCRUDRouter.__init__(schema, table, database, **kw)
Databases_init(schema, kw) ==
    /\ adapter = "databases"
    /\ ~ctor.built
    /\ ctor' = Generator_init(schema, Databases_kwargs(schema, kw), kw)
    /\ UNCHANGED <<adapter, pkName, store, req, cleared, seen>>

\* TortoiseCRUDRouter.__init__(schema, db_model, **kw)
Tortoise_init(schema, kw) ==
    /\ adapter = "tortoise"
    /\ ~ctor.built
    /\ ctor' = Generator_init(schema, Tortoise_kwargs(schema, kw), kw)
    /\ UNCHANGED <<adapter, pkName, store, req, cleared, seen>>

----------------------------------------------------------------------------
\* The system.

Tables == [Ids -> Names \cup {Absent}]

\* A freshly constructed router over a table that may already hold rows.
Init ==
    /\ adapter \in Adapters
    /\ pkName \in PkNames
    /\ ctor = Generator_init(RowSchema,
                             IF adapter = "databases"
                             THEN Databases_kwargs(RowSchema, NoKwargs)
                             ELSE Tortoise_kwargs(RowSchema, NoKwargs),
                             NoKwargs)
    /\ store \in Tables
    /\ req = [r \in Req |-> Idle]
    /\ cleared = FALSE
    /\ seen = NoSeen

Skips == 0..MaxId
Limits == {NoLimit} \cup (0..MaxId)

Next ==
    \/ \E r \in Req, s \in Skips, l \in Limits, ok \in BOOLEAN :
          Databases_get_all(r, s, l, ok)
    \/ \E r \in Req, id \in Ids, ok \in BOOLEAN : Databases_get_one(r, id, ok)
    \/ \E r \in Req, p \in CreatePayloads, k \in Ids, ok \in BOOLEAN :
          Databases_create(r, p, k, ok)
    \/ \E r \in Req, id \in Ids, p \in UpdatePayloads, ok \in BOOLEAN :
          Databases_update(r, id, p, ok)
    \/ \E r \in Req, ok \in BOOLEAN : Databases_delete_all(r, ok)
    \/ \E r \in Req, ok \in BOOLEAN : Databases_delete_all_relist(r, ok)
    \/ \E r \in Req, id \in Ids, ok \in BOOLEAN : Databases_delete_one(r, id, ok)
    \/ \E r \in Req, ok \in BOOLEAN : Databases_delete_one_execute(r, ok)
    \/ \E r \in Req, s \in Skips, l \in Limits, ok \in BOOLEAN :
          Tortoise_get_all(r, s, l, ok)
    \/ \E r \in Req, id \in Ids, ok \in BOOLEAN : Tortoise_get_one(r, id, ok)
    \/ \E r \in Req, p \in CreatePayloads, k \in Ids, ok \in BOOLEAN :
          Tortoise_create(r, p, k, ok)
    \/ \E r \in Req, id \in Ids, p \in UpdatePayloads, ok \in BOOLEAN,
          applies \in BOOLEAN :
          Tortoise_update(r, id, p, ok, applies)
    \/ \E r \in Req, ok \in BOOLEAN : Tortoise_update_refetch(r, ok)
    \/ \E r \in Req, ok \in BOOLEAN : Tortoise_delete_all(r, ok)
    \/ \E r \in Req, ok \in BOOLEAN : Tortoise_delete_all_relist(r, ok)
    \/ \E r \in Req, id \in Ids, ok \in BOOLEAN : Tortoise_delete_one(r, id, ok)
    \/ \E r \in Req, ok \in BOOLEAN : Tortoise_delete_one_delete(r, ok)
    \/ \E r \in Req : Respond(r)

Spec == Init /\ [][Next]_vars

\* Construction on its own: a router class, a table and its primary key are
\* given; __init__ runs once with the caller's schema and keyword arguments.
InitClass ==
    /\ ctor = Unbuilt
    /\ adapter \in Adapters
    /\ pkName \in PkNames
    /\ store \in Tables
    /\ req = [r \in Req |-> Idle]
    /\ cleared = FALSE
    /\ seen = NoSeen

NextInit ==
    \/ \E schema \in Schemas, kw \in Kwargs : Databases_init(schema, kw)
    \/ \E schema \in Schemas, kw \in Kwargs : Tortoise_init(schema, kw)

SpecInit == InitClass /\ [][NextInit]_vars

----------------------------------------------------------------------------
\* Vocabulary of the properties.

Done(r) == req[r].pc = "done"
Ok(r) == Done(r) /\ req[r].out = "ok"

\* The step just taken started request r with operation op.
Started(r, op) == req[r].pc = "idle" /\ req'[r].pc # "idle" /\ req'[r].op = op

\* The step just taken made request r return (out = "ok") from operation op.
Returned(r, op) ==
    /\ req[r].pc # "done"
    /\ req'[r].pc = "done"
    /\ req'[r].op = op
    /\ req'[r].out = "ok"

\* What list with these arguments returns on table s in this router.
ListOf(s, skip, limit) ==
    IF adapter = "databases"
    THEN Databases_select(s, skip, limit)
    ELSE Tortoise_select(s, skip, limit)

\* What get_one(id) gives on table s in this router.
GetOneOf(s, id) ==
    IF adapter = "databases"
    THEN Databases_get_one_result(s, id)
    ELSE Tortoise_get_one_result(s, id)

\* val holds exactly the rows of table s, each once, in key order.
ListsTable(val, s) ==
    /\ Len(val) = Cardinality(Keys(s))
    /\ \A i \in 1..Len(val) :
          /\ val[i].pk \in Keys(s)
          /\ val[i].name = s[val[i].pk]
          /\ i > 1 => val[i - 1].pk < val[i].pk

----------------------------------------------------------------------------
\* C1: get_one(id), update(id, payload) and delete_one(id) for an id that no
\* stored row has (at any backend call of the request, the backend itself not
\* failing) end by raising NotFound and never return a record.
C1_NotFound ==
    \A r \in Req :
        (/\ Done(r)
         /\ req[r].op \in {"get_one", "update", "delete_one"}
         /\ req[r].missing
         /\ ~req[r].fault)
        => req[r].out = "NotFound"

\* C2: the record create returns holds the payload's fields and a primary key
\* that no row had when create was called, and the store then holds a row
\* with that key.
C2_CreateReturnsFreshKey ==
    [][\A r \in Req :
          Returned(r, "create") =>
              LET v == req'[r].val[1]
                  p == req'[r].payload
              IN  /\ Len(req'[r].val) = 1
                  /\ v.name = p.name
                  /\ v.pk \in Ids
                  /\ v.pk \notin Keys(store)
                  /\ v.pk \in Keys(store')
                  /\ store'[v.pk] = p.name]_vars

\* A create has returned while the table already held another row.
C2_Witness ==
    \E r \in Req :
        /\ Ok(r)
        /\ req[r].op = "create"
        /\ Cardinality(Keys(store)) >= 2

\* C3: a create whose insert was failed by the backend ends with Conflict
\* (422 "Key already exists"), in both adapters.
C3_CreateConflict ==
    \A r \in Req :
        (Done(r) /\ req[r].op = "create" /\ req[r].fault)
        => req[r].out = "Conflict"

\* C4 (as claimed): delete_one returns the record as it was stored at the
\* moment its delete step took effect, and leaves no row under id.
C4_ReturnsStoredAtDelete ==
    [][\A r \in Req :
          Returned(r, "delete_one") =>
              /\ req[r].id \in Keys(store)
              /\ req'[r].val = <<Row(req[r].id, store[req[r].id])>>
              /\ req[r].id \notin Keys(store')]_vars

\* C4 (amended): delete_one returns the record exactly as its own fetch step
\* read it from the store, and when it returns no row is stored under id (so
\* get_one(id) gives NotFound until a row is stored under id again).
C4_ReturnsFetched ==
    [][\A r \in Req :
          /\ Started(r, "delete_one") /\ req'[r].pc = "delete" =>
                /\ req'[r].id \in Keys(store)
                /\ req'[r].row = <<Row(req'[r].id, store[req'[r].id])>>
          /\ Returned(r, "delete_one") =>
                /\ req'[r].val = req[r].row
                /\ req[r].id \notin Keys(store')
                /\ GetOneOf(store', req[r].id).out = "NotFound"]_vars

\* A delete_one has returned a record.
C4_Witness ==
    \E r \in Req :
        /\ Ok(r)
        /\ req[r].op = "delete_one"
        /\ Len(req[r].val) = 1
        /\ req[r].val[1].pk = req[r].id

\* C5: update(id, payload) of the query-builder adapter returns a record whose
\* primary key is id and whose other fields are the payload's, and the stored
\* row id then holds the payload's values.
C5_UpdateReturnsId ==
    \A r \in Req :
        (adapter = "databases" /\ Ok(r) /\ req[r].op = "update")
        => /\ Len(req[r].val) = 1
           /\ req[r].val[1].pk = req[r].id
           /\ req[r].val[1].name = DictName(req[r].payload)
           /\ store[req[r].id] = DictName(req[r].payload)

\* C6: no step of update changes the set of primary keys in the store, and a
\* record that update returns is stored under id.
C6_UpdateKeepsKeys ==
    [][\A r \in Req :
          /\ Started(r, "update") => Keys(store') = Keys(store)
          /\ Returned(r, "update") =>
                /\ Keys(store') = Keys(store)
                /\ req'[r].id \in Keys(store')]_vars

\* C7: once a delete_all has deleted, and as long as no create has inserted
\* since, list(skip=0, limit=None) returns the empty sequence.
C7_ListEmptyAfterDeleteAll ==
    cleared => ListOf(store, 0, NoLimit) = <<>> /\ Keys(store) = {}

\* A delete_all has returned, and later a list(0, None) has returned, with no
\* create in between.
C7_Witness ==
    /\ cleared
    /\ \E r \in Req :
          /\ Ok(r)
          /\ req[r].op = "get_all"
          /\ req[r].skip = 0
          /\ req[r].limit = NoLimit
          /\ req[r].val = <<>>

\* C8 (as claimed): the sequence delete_all returns is empty.
C8_DeleteAllReturnsEmpty ==
    \A r \in Req :
        (Ok(r) /\ req[r].op = "delete_all") => req[r].val = <<>>

\* C8 (amended): the sequence delete_all returns is the content of the table
\* at its relist step: empty when no create inserted after the delete step,
\* otherwise the rows stored at that moment.
C8_DeleteAllReturnsRelist ==
    \A r \in Req :
        (Ok(r) /\ req[r].op = "delete_all")
        => /\ ListsTable(req[r].val, store)
           /\ cleared => req[r].val = <<>>

\* A delete_all has returned a non-empty sequence.
C8_Witness ==
    \E r \in Req :
        /\ Ok(r)
        /\ req[r].op = "delete_all"
        /\ req[r].val # <<>>
        /\ ~cleared

\* C9: list(skip s, limit l) with l >= 1 returns the rows at positions
\* s+1 .. min(s+l, n) of the n stored rows in the backend's order, at most l
\* of them, none when s >= n; with limit None, all rows after the first s.
C9_ListPage ==
    \A r \in Req :
        (Ok(r) /\ req[r].op = "get_all" /\ req[r].limit # 0)
        => LET rows == SelectAll(store)
               n == Len(rows)
               s == req[r].skip
               l == req[r].limit
               hi == IF l = NoLimit \/ s + l > n THEN n ELSE s + l
               val == req[r].val
           IN  /\ l # NoLimit => Len(val) <= l
               /\ Len(val) = (IF hi > s THEN hi - s ELSE 0)
               /\ \A i \in 1..Len(val) : val[i] = rows[s + i]

\* A list has skipped a row and was cut by its limit.
C9_Witness ==
    \E r \in Req :
        /\ Ok(r)
        /\ req[r].op = "get_all"
        /\ req[r].skip = 1
        /\ req[r].limit = 1
        /\ Len(req[r].val) = 1
        /\ Len(SelectAll(store)) = 2

\* C10: when create(payload) has returned, get_one of the primary key it
\* returned yields a record whose non-key fields are the payload's.
C10_CreateThenGetOne ==
    \A r \in Req :
        (Ok(r) /\ req[r].op = "create")
        => LET got == GetOneOf(store, req[r].val[1].pk)
           IN  /\ got.out = "ok"
               /\ got.val[1].name = req[r].payload.name

\* C11: get_one leaves the table as it is, and a get_one(id) that follows an
\* answered get_one(id), with no mutating backend call carried out between
\* the two, ends as the first did: the same record, or the same error.
C11_GetOneRepeats ==
    [][\A r \in Req :
          (req[r].pc = "idle" /\ req'[r].pc = "done" /\ req'[r].op = "get_one")
          => /\ store' = store
             /\ (~req'[r].fault /\ seen.id = req'[r].id)
                => /\ req'[r].out = seen.out
                   /\ req'[r].val = seen.val]_vars

\* A second get_one(id) has returned the record the first one returned.
C11_Witness ==
    \E r \in Req :
        /\ Ok(r)
        /\ req[r].op = "get_one"
        /\ seen.id = req[r].id
        /\ seen.out = "ok"
        /\ seen.val = req[r].val

C14_DeleteReturnsFetched ==
    [][\A r \in Req :
          (/\ adapter = "tortoise"
           /\ req[r].pc # "done"
           /\ req'[r].pc = "done"
           /\ req'[r].op = "delete_one")
          => /\ req'[r].out = "NotFound" => req[r].pc = "idle"
             /\ (req[r].pc = "delete" /\ ~req'[r].fault)
                => /\ req'[r].out = "ok"
                   /\ req'[r].val = req[r].row]_vars

\* A delete_one has returned the record it fetched although its own delete
\* removed nothing: the record had been removed by another request since.
C14_Witness ==
    \E r \in Req :
        /\ adapter = "tortoise"
        /\ Ok(r)
        /\ req[r].op = "delete_one"
        /\ Len(req[r].val) = 1
        /\ req[r].affected = 0

\* C15: in the tortoise adapter, update(id, payload) of a stored id writes
\* the fields the payload sets into the record of id and changes nothing
\* else in the table, and the record it then returns is the record stored
\* under id, carrying the payload's set fields.
C15_UpdateWritesSetFields ==
    [][\A r \in Req :
          /\ (/\ adapter = "tortoise"
              /\ Started(r, "update")
              /\ req'[r].id \in Keys(store)
              /\ ~req'[r].fault)
             => LET id == req'[r].id
                    p == req'[r].payload
                IN  /\ req'[r].pc = "refetch"
                    /\ store' = [store EXCEPT
                                   ![id] = IF p.name = Unset THEN @ ELSE p.name]
          /\ (/\ adapter = "tortoise"
              /\ req[r].pc = "refetch"
              /\ Returned(r, "update"))
             => req'[r].val = <<Row(req[r].id, store[req[r].id])>>]_vars

\* C16: in the tortoise adapter a list with limit 0 or limit None returns
\* every row after the first skip rows, in the table's order; any other
\* limit cuts the list to at most limit rows.
C16_LimitZeroIsNoLimit ==
    \A r \in Req :
        (adapter = "tortoise" /\ Ok(r) /\ req[r].op = "get_all")
        => LET rows == SelectAll(store)
               n == Len(rows)
               s == req[r].skip
               l == req[r].limit
               val == req[r].val
           IN  IF l \in {0, NoLimit}
               THEN /\ Len(val) = (IF n > s THEN n - s ELSE 0)
                    /\ \A i \in 1..Len(val) : val[i] = rows[s + i]
               ELSE /\ Len(val) <= l
                    /\ Len(val) = (IF n - s > l THEN l ELSE IF n > s THEN n - s ELSE 0)

\* A list with limit 0 has returned rows.
C16_Witness ==
    \E r \in Req :
        /\ adapter = "tortoise"
        /\ Ok(r)
        /\ req[r].op = "get_all"
        /\ req[r].limit = 0
        /\ req[r].skip = 1
        /\ Len(req[r].val) = 1

\* C17: in the tortoise adapter, whatever the primary-key field of the model
\* is named, get_one(k) returns the record whose primary key is k and
\* raises NotFound when there is none.
C17_SelectsByPrimaryKey ==
    \A r \in Req :
        (adapter = "tortoise" /\ Done(r) /\ req[r].op = "get_one" /\ ~req[r].fault)
        => IF req[r].id \in Keys(store)
           THEN /\ req[r].out = "ok"
                /\ req[r].val = <<Row(req[r].id, store[req[r].id])>>
           ELSE req[r].out = "NotFound"

\* C18: a request ends with a result (one record, or a sequence from the
\* two list-returning routes) or with one of NotFound, Conflict and the
\* backend's error, never with both.  NotFound comes only from get_one, update and delete_one, Conflict
\* only from create.  A backend call that fails ends its request at once (no
\* further step of that request follows), and outside create the request
\* ends with the backend's error.
C18_Outcomes ==
    \A r \in Req :
        /\ req[r].fault => Done(r)
        /\ Done(r)
           => /\ req[r].out \in {"ok", "NotFound", "Conflict", "BackendError"}
              /\ req[r].out = "NotFound"
                 => req[r].op \in {"get_one", "update", "delete_one"}
              /\ req[r].out = "Conflict" => req[r].op = "create"
              /\ (req[r].fault /\ req[r].op # "create")
                 => req[r].out = "BackendError"
              /\ req[r].out # "ok" => req[r].val = <<>>
              /\ (req[r].out = "ok" /\ req[r].op \notin {"get_all", "delete_all"})
                 => Len(req[r].val) = 1

\* A backend call of delete_one has failed for a stored id, and the request
\* has ended with the backend's error.
C18_Witness ==
    \E r \in Req :
        /\ Done(r)
        /\ req[r].fault
        /\ req[r].op = "delete_one"
        /\ req[r].out = "BackendError"
        /\ req[r].id \in Keys(store)

\* C19: a request that ends with NotFound has changed nothing in the table.
\* The step that raises NotFound leaves the table as it is; and when the
\* update step of the tortoise _update leaves a table on which the re-fetch
\* that follows it raises NotFound, the update step has left the table as
\* it was.
C19_NotFoundChangesNothing ==
    [][\A r \in Req :
          /\ (/\ req[r].pc # "done"
              /\ req'[r].pc = "done"
              /\ req'[r].out = "NotFound")
             => store' = store
          /\ (/\ Started(r, "update")
              /\ req'[r].pc = "refetch"
              /\ GetOneOf(store', req'[r].id).out = "NotFound")
             => store' = store]_vars

====
